---- MODULE Spec2Model ----
(***************************************************************************)
(* Model of src/script.js: the indicator functions calculateSMA,           *)
(* calculateEMA, calculateRSI, calculateMACD and the trade simulator and   *)
(* performance metrics of runBacktest.                                     *)
(*                                                                         *)
(* JavaScript numbers are modelled as exact rationals <<"num", n, d>> in   *)
(* lowest terms with d > 0, so rounding is out of the model.  The other    *)
(* JavaScript values the code can produce are kept apart from numbers:     *)
(* null, undefined (also what reading past the end of an array or an       *)
(* empty slot gives), NaN and Infinity.                                    *)
(***************************************************************************)
EXTENDS Integers, Sequences, FiniteSets, TLC

\* ---------------------------------------------------------------- bounds
\* longest price series given to runBacktest
MaxLen == 6
\* longest sequence given to one indicator function
MaxValues == 5
\* largest period given to one indicator function
MaxPeriod == 3

\* ------------------------------------------------------ JavaScript values
Null == <<"null", 0, 1>>
Undefined == <<"undefined", 0, 1>>
NaN == <<"nan", 0, 1>>
Infinity == <<"inf", 1, 1>>
NegInfinity == <<"inf", -1, 1>>

IsNum(v) == v[1] = "num"

Abs(n) == IF n < 0 THEN -n ELSE n

RECURSIVE GCD(_, _)
GCD(a, b) == IF b = 0 THEN a ELSE GCD(b, a % b)

\* the rational n/d (d > 0) in lowest terms
Norm(n, d) ==
  LET g == GCD(Abs(n), d)
  IN  IF n = 0 THEN <<"num", 0, 1>> ELSE <<"num", n \div g, d \div g>>

Num(n) == <<"num", n, 1>>

\* ToNumber: null is 0, undefined is NaN
ToNumber(v) ==
  IF v[1] = "null" THEN Num(0)
  ELSE IF v[1] = "undefined" THEN NaN
  ELSE v

LCM(a, b) == (a \div GCD(a, b)) * b

\* a + b
JAdd(a, b) ==
  LET x == ToNumber(a)
      y == ToNumber(b)
  IN  IF ~IsNum(x) \/ ~IsNum(y) THEN NaN
      ELSE LET l == LCM(x[3], y[3])
           IN  Norm(x[2] * (l \div x[3]) + y[2] * (l \div y[3]), l)

\* -a
JNeg(a) ==
  LET x == ToNumber(a)
  IN  IF ~IsNum(x) THEN NaN ELSE <<"num", -x[2], x[3]>>

\* a - b
JSub(a, b) == JAdd(a, JNeg(b))

\* a * b
JMul(a, b) ==
  LET x == ToNumber(a)
      y == ToNumber(b)
  IN  IF ~IsNum(x) \/ ~IsNum(y) THEN NaN
      ELSE IF x[2] = 0 \/ y[2] = 0 THEN Num(0)
      ELSE LET g1 == GCD(Abs(x[2]), y[3])
               g2 == GCD(Abs(y[2]), x[3])
           IN  <<"num", (x[2] \div g1) * (y[2] \div g2),
                        (x[3] \div g2) * (y[3] \div g1)>>

\* a / b
JDiv(a, b) ==
  LET x == ToNumber(a)
      y == ToNumber(b)
  IN  IF ~IsNum(x) \/ ~IsNum(y) THEN NaN
      ELSE IF y[2] = 0
        THEN IF x[2] = 0 THEN NaN
             ELSE IF x[2] > 0 THEN Infinity ELSE NegInfinity
      ELSE IF y[2] > 0 THEN JMul(x, <<"num", y[3], y[2]>>)
      ELSE JMul(x, <<"num", -y[3], -y[2]>>)

\* a < b : false as soon as one side is NaN
JLt(a, b) ==
  LET x == ToNumber(a)
      y == ToNumber(b)
  IN  /\ IsNum(x)
      /\ IsNum(y)
      /\ LET l == LCM(x[3], y[3])
         IN  x[2] * (l \div x[3]) < y[2] * (l \div y[3])

JGt(a, b) == JLt(b, a)

\* a <= b
JLe(a, b) ==
  LET x == ToNumber(a)
      y == ToNumber(b)
  IN  IsNum(x) /\ IsNum(y) /\ ~JLt(y, x)

JGe(a, b) == JLe(b, a)

\* a === 0
IsZero(a) == a = Num(0)

\* the truth value of a number in a condition: 0 and NaN are false
Truthy(a) == a[1] = "inf" \/ (IsNum(a) /\ a[2] # 0)

\* Math.abs
JAbs(a) ==
  LET x == ToNumber(a)
  IN  IF ~IsNum(x) THEN NaN ELSE <<"num", Abs(x[2]), x[3]>>

\* ----------------------------------------------------------------- arrays
\* An array is a function on 0 .. length-1.
ALen(a) == Cardinality(DOMAIN a)

\* a[i]: undefined outside the array
At(a, i) == IF i \in DOMAIN a THEN a[i] ELSE Undefined

\* a[i] = v: an assignment past the end grows the array, the slots in
\* between stay empty (they read as undefined)
SetAt(a, i, v) ==
  IF i \in DOMAIN a THEN [a EXCEPT ![i] = v]
  ELSE [j \in 0..i |-> IF j = i THEN v
                       ELSE IF j \in DOMAIN a THEN a[j] ELSE Undefined]

\* Array(n).fill(null)
FillNull(n) == [j \in 0..(n - 1) |-> Null]

\* ------------------------------------------------------------ calculateSMA
\* calculateSMA with the leaving value subtracted one step late
RECURSIVE SMALoop_LateSubtract(_, _, _, _, _)
SMALoop_LateSubtract(values, period, i, sum, result) ==
  IF i >= ALen(values) THEN result
  ELSE LET s1 == JAdd(sum, values[i])
           s2 == IF i > period THEN JSub(s1, values[i - period]) ELSE s1
           r  == IF i >= period - 1
                 THEN SetAt(result, i, JDiv(s2, Num(period)))
                 ELSE result
       IN  SMALoop_LateSubtract(values, period, i + 1, s2, r)

RECURSIVE SMALoop(_, _, _, _, _)
SMALoop(values, period, i, sum, result) ==
  IF i >= ALen(values) THEN result
  ELSE LET s1 == JAdd(sum, values[i])
           s2 == IF i >= period THEN JSub(s1, values[i - period]) ELSE s1
           r  == IF i >= period - 1
                 THEN SetAt(result, i, JDiv(s2, Num(period)))
                 ELSE result
       IN  SMALoop(values, period, i + 1, s2, r)

calculateSMA(values, period) ==
  SMALoop(values, period, 0, Num(0), FillNull(ALen(values)))

\* ------------------------------------------------------------ calculateEMA
RECURSIVE EMALoop(_, _, _, _, _)
EMALoop(values, period, i, prev, ema) ==
  IF i >= ALen(values) THEN ema
  ELSE LET k     == JDiv(Num(2), Num(period + 1))
           price == values[i]
           p     == IF prev = Undefined THEN price
                    ELSE JAdd(JMul(price, k), JMul(prev, JSub(Num(1), k)))
           e     == IF i >= period - 1 THEN SetAt(ema, i, p) ELSE ema
       IN  EMALoop(values, period, i + 1, p, e)

calculateEMA(values, period) ==
  EMALoop(values, period, 0, Undefined, FillNull(ALen(values)))

\* ------------------------------------------------------------ calculateRSI
\* the seed loop with the losses added as they are (negative)
RECURSIVE RSISeed_SignedLosses(_, _, _, _, _)
RSISeed_SignedLosses(values, period, i, gains, losses) ==
  IF i > period THEN <<gains, losses>>
  ELSE LET change == JSub(At(values, i), At(values, i - 1))
       IN  IF JGe(change, Num(0))
           THEN RSISeed_SignedLosses(values, period, i + 1,
                                     JAdd(gains, change), losses)
           ELSE RSISeed_SignedLosses(values, period, i + 1,
                                     gains, JAdd(losses, change))

\* the seed loop: <<gains, losses>> after i = 1 .. period
RECURSIVE RSISeed(_, _, _, _, _)
RSISeed(values, period, i, gains, losses) ==
  IF i > period THEN <<gains, losses>>
  ELSE LET change == JSub(At(values, i), At(values, i - 1))
       IN  IF JGe(change, Num(0))
           THEN RSISeed(values, period, i + 1, JAdd(gains, change), losses)
           ELSE RSISeed(values, period, i + 1, gains, JSub(losses, change))

\* the value written for the running averages
RSIValue(avgGain, avgLoss) ==
  IF IsZero(avgLoss) THEN Num(100)
  ELSE LET rs == JDiv(avgGain, avgLoss)
       IN  JSub(Num(100), JDiv(Num(100), JAdd(Num(1), rs)))

RECURSIVE RSILoop(_, _, _, _, _, _)
RSILoop(values, period, i, avgGain, avgLoss, rsi) ==
  IF i >= ALen(values) THEN rsi
  ELSE LET change == JSub(values[i], values[i - 1])
           gain   == IF JGt(change, Num(0)) THEN change ELSE Num(0)
           loss   == IF JLt(change, Num(0)) THEN JNeg(change) ELSE Num(0)
           g      == JDiv(JAdd(JMul(avgGain, Num(period - 1)), gain), Num(period))
           l      == JDiv(JAdd(JMul(avgLoss, Num(period - 1)), loss), Num(period))
       IN  RSILoop(values, period, i + 1, g, l, SetAt(rsi, i, RSIValue(g, l)))

calculateRSI(values, period) ==
  LET seed    == RSISeed(values, period, 1, Num(0), Num(0))
      avgGain == JDiv(seed[1], Num(period))
      avgLoss == JDiv(seed[2], Num(period))
      rsi0    == SetAt(FillNull(ALen(values)), period, RSIValue(avgGain, avgLoss))
  IN  RSILoop(values, period, period + 1, avgGain, avgLoss, rsi0)

\* ----------------------------------------------------------- calculateMACD
\* the MACD line that is null only where both averages are
MacdLine_BothNull(values, emaFast, emaSlow) ==
  [i \in DOMAIN values |->
     IF emaFast[i] = Null /\ emaSlow[i] = Null THEN Null
     ELSE JSub(emaFast[i], emaSlow[i])]

MacdLine(values, emaFast, emaSlow) ==
  [i \in DOMAIN values |->
     IF emaFast[i] = Null \/ emaSlow[i] = Null THEN Null
     ELSE JSub(emaFast[i], emaSlow[i])]

\* macdLine.map(v => (v === null ? 0 : v))
NullToZero(line) == [i \in DOMAIN line |-> IF line[i] = Null THEN Num(0) ELSE line[i]]

calculateMACD(values, fastPeriod, slowPeriod, signalPeriod) ==
  LET emaFast  == calculateEMA(values, fastPeriod)
      emaSlow  == calculateEMA(values, slowPeriod)
      macd     == MacdLine(values, emaFast, emaSlow)
  IN  [macdLine |-> macd,
       signalLine |-> calculateEMA(NullToZero(macd), signalPeriod)]

\* ------------------------------------------------------------- runBacktest
VARIABLES data, params, sma, rsi, macdLine, signalLine,
          trades, inTrade, entryPrice, entryDate, i, pc, result

vars == <<data, params, sma, rsi, macdLine, signalLine,
          trades, inTrade, entryPrice, entryDate, i, pc, result>>

\* data[j] is the close of row j; the date of row j is its position j.
\* The click handler only calls runBacktest on a non-empty csvData.
Prices == {1, 2, 3}

SeriesUpTo(n) == UNION {[0..(m - 1) -> Prices] : m \in 1..n}

Series == SeriesUpTo(MaxLen)

\* The configurations of the simulator runs.  With macdFast = macdSlow the
\* MACD line is 0 wherever it is defined and no position is ever opened.
Configs ==
  {c \in [maPeriod : {2, 4}, rsiPeriod : {2}, rsiOverbought : {30, 70},
          macdFast : {1, 2}, macdSlow : {1, 2}, macdSignal : {2, 4}] :
     c.macdFast # c.macdSlow}

\* entryDate = null
NoDate == -1

NoResult == [winRate |-> Null, totalTrades |-> 0, profitFactor |-> Null]

\* data.map(d => d.close)
Closes(d) == [j \in DOMAIN d |-> Num(d[j])]

closes == Closes(data)

\* the state at line 117 for a series of S and a configuration of C
InitWith(S, C) ==
  /\ data \in S
  /\ params \in C
  /\ sma = <<>>
  /\ rsi = <<>>
  /\ macdLine = <<>>
  /\ signalLine = <<>>
  /\ trades = <<>>
  /\ inTrade = FALSE
  /\ entryPrice = Num(0)
  /\ entryDate = NoDate
  /\ i = 1
  /\ pc = "indicators"
  /\ result = NoResult

Init == InitWith(Series, Configs)

\* lines 104-117: the indicators, then the loop starts at i = 1
Indicators ==
  /\ pc = "indicators"
  /\ sma' = calculateSMA(closes, params.maPeriod)
  /\ rsi' = calculateRSI(closes, params.rsiPeriod)
  /\ LET m == calculateMACD(closes, params.macdFast, params.macdSlow,
                            params.macdSignal)
     IN  /\ macdLine' = m.macdLine
         /\ signalLine' = m.signalLine
  /\ pc' = "loop"
  /\ UNCHANGED <<data, params, trades, inTrade, entryPrice, entryDate, i, result>>

buySignal(j) ==
  /\ JGt(closes[j], At(sma, j))
  /\ At(macdLine, j - 1) # Null
  /\ At(macdLine, j) # Null
  /\ JLe(At(macdLine, j - 1), At(signalLine, j - 1))
  /\ JGt(At(macdLine, j), At(signalLine, j))
  /\ At(rsi, j) # Null
  /\ JLt(At(rsi, j), Num(params.rsiOverbought))

sellSignal(j) ==
  /\ JGe(At(macdLine, j - 1), At(signalLine, j - 1))
  /\ JLt(At(macdLine, j), At(signalLine, j))

\* line 140
ExitCondition(j) == sellSignal(j) \/ j = ALen(data) - 1

InLoop == pc = "loop" /\ i < ALen(data)

\* lines 131-135
Enter ==
  /\ InLoop
  /\ ~inTrade
  /\ buySignal(i)
  /\ inTrade' = TRUE
  /\ entryPrice' = closes[i]
  /\ entryDate' = i
  /\ i' = i + 1
  /\ UNCHANGED <<data, params, sma, rsi, macdLine, signalLine, trades, pc, result>>

StayFlat ==
  /\ InLoop
  /\ ~inTrade
  /\ ~buySignal(i)
  /\ i' = i + 1
  /\ UNCHANGED <<data, params, sma, rsi, macdLine, signalLine, trades, inTrade,
                 entryPrice, entryDate, pc, result>>

\* the exit that leaves inTrade set
Exit_KeepsPosition ==
  /\ InLoop
  /\ inTrade
  /\ ExitCondition(i)
  /\ LET exitPrice == closes[i]
         exitDate  == i
         pnl       == JSub(exitPrice, entryPrice)
     IN  trades' = Append(trades, [entryDate |-> entryDate, exitDate |-> exitDate,
                                   entryPrice |-> entryPrice,
                                   exitPrice |-> exitPrice, pnl |-> pnl])
  /\ i' = i + 1
  /\ UNCHANGED <<data, params, sma, rsi, macdLine, signalLine, inTrade,
                 entryPrice, entryDate, pc, result>>

\* lines 140-152
Exit ==
  /\ InLoop
  /\ inTrade
  /\ ExitCondition(i)
  /\ LET exitPrice == closes[i]
         exitDate  == i
         pnl       == JSub(exitPrice, entryPrice)
     IN  trades' = Append(trades, [entryDate |-> entryDate, exitDate |-> exitDate,
                                   entryPrice |-> entryPrice,
                                   exitPrice |-> exitPrice, pnl |-> pnl])
  /\ inTrade' = FALSE
  /\ i' = i + 1
  /\ UNCHANGED <<data, params, sma, rsi, macdLine, signalLine, entryPrice,
                 entryDate, pc, result>>

Hold ==
  /\ InLoop
  /\ inTrade
  /\ ~ExitCondition(i)
  /\ i' = i + 1
  /\ UNCHANGED <<data, params, sma, rsi, macdLine, signalLine, trades, inTrade,
                 entryPrice, entryDate, pc, result>>

\* trades.filter(t => t.pnl > 0)
Winning(ts) == SelectSeq(ts, LAMBDA t : JGt(t.pnl, Num(0)))

\* trades.filter(t => t.pnl < 0)
Losing(ts) == SelectSeq(ts, LAMBDA t : JLt(t.pnl, Num(0)))

\* reduce((sum, t) => sum + t.pnl, 0)
RECURSIVE SumPnl(_, _)
SumPnl(ts, sum) ==
  IF ts = <<>> THEN sum ELSE SumPnl(Tail(ts), JAdd(sum, Head(ts).pnl))

\* reduce((sum, t) => sum + Math.abs(t.pnl), 0)
RECURSIVE SumAbsPnl(_, _)
SumAbsPnl(ts, sum) ==
  IF ts = <<>> THEN sum ELSE SumAbsPnl(Tail(ts), JAdd(sum, JAbs(Head(ts).pnl)))

\* the metrics with the profit factor guarded by grossProfit
Performance_GuardsProfit(ts) ==
  LET totalTrades == Len(ts)
      wins        == Len(Winning(ts))
      grossProfit == SumPnl(Winning(ts), Num(0))
      grossLoss   == SumAbsPnl(Losing(ts), Num(0))
  IN  [winRate |-> IF totalTrades # 0
                   THEN JMul(JDiv(Num(wins), Num(totalTrades)), Num(100))
                   ELSE Num(0),
       totalTrades |-> totalTrades,
       profitFactor |-> IF Truthy(grossProfit) THEN JDiv(grossProfit, grossLoss)
                        ELSE Infinity]

\* lines 157-162
Performance(ts) ==
  LET totalTrades == Len(ts)
      wins        == Len(Winning(ts))
      grossProfit == SumPnl(Winning(ts), Num(0))
      grossLoss   == SumAbsPnl(Losing(ts), Num(0))
  IN  [winRate |-> IF totalTrades # 0
                   THEN JMul(JDiv(Num(wins), Num(totalTrades)), Num(100))
                   ELSE Num(0),
       totalTrades |-> totalTrades,
       profitFactor |-> IF Truthy(grossLoss) THEN JDiv(grossProfit, grossLoss)
                        ELSE Infinity]

\* lines 156-164
Metrics ==
  /\ pc = "loop"
  /\ i >= ALen(data)
  /\ result' = Performance(trades)
  /\ pc' = "done"
  /\ UNCHANGED <<data, params, sma, rsi, macdLine, signalLine, trades, inTrade,
                 entryPrice, entryDate, i>>

Next == Indicators \/ Enter \/ StayFlat \/ Exit \/ Hold \/ Metrics

Spec == Init /\ [][Next]_vars

\* ------------------------------------------- the indicator functions alone
\* The calls of lines 105-112, each applied to a sequence and periods of its
\* own.
ValueSeries == SeriesUpTo(MaxValues)

Periods == 1..MaxPeriod

SMAConfigs ==
  [maPeriod : Periods, rsiPeriod : {1}, rsiOverbought : {70},
   macdFast : {1}, macdSlow : {1}, macdSignal : {1}]

RSIConfigs ==
  [maPeriod : {1}, rsiPeriod : Periods, rsiOverbought : {70},
   macdFast : {1}, macdSlow : {1}, macdSignal : {1}]

MACDConfigs ==
  [maPeriod : {1}, rsiPeriod : {1}, rsiOverbought : {70},
   macdFast : Periods, macdSlow : Periods, macdSignal : Periods]

InitSMA == InitWith(ValueSeries, SMAConfigs)

InitRSI == InitWith(ValueSeries, RSIConfigs)

InitMACD == InitWith(ValueSeries, MACDConfigs)

\* line 105
ApplySMA ==
  /\ pc = "indicators"
  /\ sma' = calculateSMA(closes, params.maPeriod)
  /\ pc' = "applied"
  /\ UNCHANGED <<data, params, rsi, macdLine, signalLine, trades, inTrade,
                 entryPrice, entryDate, i, result>>

\* line 106
ApplyRSI ==
  /\ pc = "indicators"
  /\ rsi' = calculateRSI(closes, params.rsiPeriod)
  /\ pc' = "applied"
  /\ UNCHANGED <<data, params, sma, macdLine, signalLine, trades, inTrade,
                 entryPrice, entryDate, i, result>>

\* lines 107-112
ApplyMACD ==
  /\ pc = "indicators"
  /\ LET m == calculateMACD(closes, params.macdFast, params.macdSlow,
                            params.macdSignal)
     IN  /\ macdLine' = m.macdLine
         /\ signalLine' = m.signalLine
  /\ pc' = "applied"
  /\ UNCHANGED <<data, params, sma, rsi, trades, inTrade, entryPrice, entryDate,
                 i, result>>

SpecSMA == InitSMA /\ [][ApplySMA]_vars

SpecRSI == InitRSI /\ [][ApplyRSI]_vars

SpecMACD == InitMACD /\ [][ApplyMACD]_vars

\* ================================================================ claims
\* a defined indicator value: a number, neither null nor undefined nor NaN
Defined(v) == IsNum(v)

LastIndex == ALen(data) - 1

\* the indices at which a position was opened so far
EntryIndices ==
  {trades[k].entryDate : k \in 1..Len(trades)}
    \cup (IF inTrade THEN {entryDate} ELSE {})

\* C1: runBacktest never opens a position at an index where SMA[i],
\* macdLine[i-1], macdLine[i] or RSI[i] is Undefined.
C1_EntryOnlyWhereIndicatorsDefined ==
  \A e \in EntryIndices :
    /\ Defined(At(sma, e))
    /\ Defined(At(macdLine, e - 1))
    /\ Defined(At(macdLine, e))
    /\ Defined(At(rsi, e))

\* C2: every recorded trade exits at an index strictly greater than its entry
\* index, a later trade is entered strictly after the earlier trade's exit, and
\* the one position that may be open was opened strictly after the last exit
\* and before the index the walk is at.
C2_TradesNeverOverlap ==
  /\ \A k \in 1..Len(trades) :
       /\ trades[k].entryDate >= 1
       /\ trades[k].exitDate > trades[k].entryDate
       /\ trades[k].exitDate < i
  /\ \A k \in 1..(Len(trades) - 1) :
       trades[k + 1].entryDate > trades[k].exitDate
  /\ inTrade =>
       /\ entryDate >= 1
       /\ entryDate < i
       /\ trades # <<>> => entryDate > trades[Len(trades)].exitDate

\* a finished run that recorded two trades, one after the other
C2_TwoTrades == Len(trades) >= 2 /\ inTrade = FALSE /\ pc = "done"

\* C3: when runBacktest returns no position is open: the position opened last
\* has its trade, the last one recorded, closed by a crossover before the last
\* index or else at the last index.
C3_NoPositionLeftOpen ==
  pc = "done" =>
    /\ ~inTrade
    /\ entryDate # NoDate =>
         /\ trades # <<>>
         /\ trades[Len(trades)].entryDate = entryDate
         /\ trades[Len(trades)].exitDate <= LastIndex

\* a bearish crossover between j-1 and j, on defined values
BearishCrossover(j) ==
  /\ Defined(At(macdLine, j - 1))
  /\ Defined(At(signalLine, j - 1))
  /\ Defined(At(macdLine, j))
  /\ Defined(At(signalLine, j))
  /\ JGe(macdLine[j - 1], signalLine[j - 1])
  /\ JLt(macdLine[j], signalLine[j])

\* C4: LONG at the start of index i, the simulator closes the position at i
\* iff there is a bearish crossover at i or i is the last index; closing
\* appends exactly one trade with exitPrice = close[i] and pnl = close[i] minus
\* the close at the entry index and returns to FLAT; otherwise the state stays
\* LONG and the entry price and the trades are unchanged.
C4_CloseIffCrossoverOrLast ==
  [][(pc = "loop" /\ i < ALen(data) /\ inTrade) =>
       IF BearishCrossover(i) \/ i = LastIndex
       THEN /\ ~inTrade'
            /\ Len(trades') = Len(trades) + 1
            /\ SubSeq(trades', 1, Len(trades)) = trades
            /\ trades'[Len(trades')].exitPrice = Num(data[i])
            /\ trades'[Len(trades')].pnl = Num(data[i] - data[entryDate])
       ELSE /\ inTrade'
            /\ entryPrice' = entryPrice
            /\ trades' = trades]_vars

\* an indicator series over the input, Undefined everywhere
AllUndefined(series, values) ==
  /\ DOMAIN series = DOMAIN values
  /\ \A j \in DOMAIN series : series[j] = Null

\* C5: on an input shorter than the warm-up (length < period for SMA and EMA,
\* length <= period for RSI) each of calculateSMA, calculateEMA and
\* calculateRSI returns a series of the length of the input that is null
\* everywhere.
C5_ShortSeriesAllUndefined ==
  pc # "indicators" =>
    /\ ALen(data) < params.maPeriod => AllUndefined(sma, data)
    /\ \A p \in {params.macdFast, params.macdSlow, params.macdSignal} :
         ALen(data) < p => AllUndefined(calculateEMA(closes, p), data)
    /\ ALen(data) <= params.rsiPeriod => AllUndefined(rsi, data)

\* the trades with a positive, and with a negative, pnl
WinSet == {k \in 1..Len(trades) : trades[k].pnl[2] > 0}

LossSet == {k \in 1..Len(trades) : trades[k].pnl[2] < 0}

\* the pnl are integers here: the closes are
RECURSIVE SumOver(_)
SumOver(S) ==
  IF S = {} THEN 0
  ELSE LET k == CHOOSE x \in S : TRUE
       IN  Abs(trades[k].pnl[2]) + SumOver(S \ {k})

\* C6: totalTrades is the number of trades; winRate is 100 * wins / totalTrades
\* (so within 0..100), or 0 without trades; profitFactor is the infinite
\* sentinel iff grossLoss is 0, and grossProfit / grossLoss otherwise.
C6_Metrics ==
  pc = "done" =>
    /\ \A k \in 1..Len(trades) : trades[k].pnl[3] = 1
    /\ result.totalTrades = Len(trades)
    /\ IF Len(trades) = 0 THEN result.winRate = Num(0)
       ELSE /\ result.winRate = Norm(100 * Cardinality(WinSet), Len(trades))
            /\ JLe(Num(0), result.winRate)
            /\ JLe(result.winRate, Num(100))
    /\ result.profitFactor = Infinity <=> SumOver(LossSet) = 0
    /\ SumOver(LossSet) # 0 =>
         result.profitFactor = Norm(SumOver(WinSet), SumOver(LossSet))

\* a finished run with a winning and a losing trade: a finite profit factor
C6_WinAndLoss ==
  /\ pc = "done"
  /\ WinSet # {}
  /\ LossSet # {}
  /\ result.profitFactor # Infinity

\* the sum of d[from .. to]
RECURSIVE WindowSum(_, _, _)
WindowSum(d, from, to) ==
  IF from > to THEN 0 ELSE d[from] + WindowSum(d, from + 1, to)

\* C7: calculateSMA is Undefined at every index below period - 1, and at every
\* other index its value times period is the sum of the trailing period values.
C7_SMAIsWindowMean ==
  pc = "applied" =>
    /\ DOMAIN sma = DOMAIN data
    /\ \A j \in DOMAIN data :
         IF j < params.maPeriod - 1 THEN sma[j] = Null
         ELSE /\ Defined(sma[j])
              /\ JMul(sma[j], Num(params.maPeriod))
                   = Num(WindowSum(data, j - params.maPeriod + 1, j))

\* a sequence longer than the window, whose mean moved when the last value
\* came in and the oldest one left
C7_WindowSlides ==
  /\ pc = "applied"
  /\ params.maPeriod >= 2
  /\ ALen(data) > params.maPeriod + 1
  /\ Defined(sma[LastIndex])
  /\ sma[LastIndex] # sma[LastIndex - 1]

\* the gains and the losses of the deltas at from .. to
RECURSIVE Gains(_, _, _)
Gains(d, from, to) ==
  IF from > to THEN 0
  ELSE (IF d[from] > d[from - 1] THEN d[from] - d[from - 1] ELSE 0)
         + Gains(d, from + 1, to)

RECURSIVE Losses(_, _, _)
Losses(d, from, to) ==
  IF from > to THEN 0
  ELSE (IF d[from] < d[from - 1] THEN d[from - 1] - d[from] ELSE 0)
         + Losses(d, from + 1, to)

\* Wilder's running average of the losses at index j >= p: the simple average
\* of the first p losses at p, then (previous * (p - 1) + loss at j) / p
RECURSIVE WilderLoss(_, _, _)
WilderLoss(d, p, j) ==
  IF j <= p THEN Norm(Losses(d, 1, p), p)
  ELSE JDiv(JAdd(JMul(WilderLoss(d, p, j - 1), Num(p - 1)),
                 Num(Losses(d, j, j))),
            Num(p))

\* C8: on an input longer than period, calculateRSI is Undefined at
\* 0 .. period-1 and defined within [0, 100] from period on; it is 100 wherever
\* the running average loss is 0 (no loss so far); the value at period is that
\* of the simple averages of the first period deltas.
C8_RSIRange ==
  (pc = "applied" /\ ALen(data) > params.rsiPeriod) =>
    LET p == params.rsiPeriod
    IN  /\ DOMAIN rsi = DOMAIN data
        /\ \A j \in DOMAIN data :
             IF j < p THEN rsi[j] = Null
             ELSE /\ Defined(rsi[j])
                  /\ JLe(Num(0), rsi[j])
                  /\ JLe(rsi[j], Num(100))
                  /\ WilderLoss(data, p, j) = Num(0) => rsi[j] = Num(100)
        /\ Losses(data, 1, p) # 0 =>
             rsi[p] = Norm(100 * Gains(data, 1, p),
                           Gains(data, 1, p) + Losses(data, 1, p))

\* a seed without a loss (100) followed by smoothed values, the last of them
\* strictly between 0 and 100
C8_SmoothedValue ==
  /\ pc = "applied"
  /\ params.rsiPeriod >= 2
  /\ ALen(data) > params.rsiPeriod + 1
  /\ Losses(data, 1, params.rsiPeriod) = 0
  /\ rsi[params.rsiPeriod] = Num(100)
  /\ JLt(Num(0), rsi[LastIndex])
  /\ JLt(rsi[LastIndex], Num(100))

Max(a, b) == IF a > b THEN a ELSE b

\* C9: macdLine has the length of the input; macdLine[i] is Undefined iff
\* emaFast[i] or emaSlow[i] is, that is iff i < max(fastPeriod, slowPeriod) - 1,
\* and is emaFast[i] - emaSlow[i] otherwise.
C9_MacdLine ==
  pc = "applied" =>
    LET emaFast == calculateEMA(closes, params.macdFast)
        emaSlow == calculateEMA(closes, params.macdSlow)
    IN  /\ DOMAIN macdLine = DOMAIN data
        /\ \A j \in DOMAIN data :
             /\ emaFast[j] = Null <=> j < params.macdFast - 1
             /\ emaSlow[j] = Null <=> j < params.macdSlow - 1
             /\ macdLine[j] = Null <=> (emaFast[j] = Null \/ emaSlow[j] = Null)
             /\ macdLine[j] = Null
                  <=> j < Max(params.macdFast, params.macdSlow) - 1
             /\ macdLine[j] # Null =>
                  /\ Defined(emaFast[j])
                  /\ Defined(emaSlow[j])
                  /\ JAdd(macdLine[j], emaSlow[j]) = emaFast[j]

\* the fast average is warm before the slow one: the line is still Undefined
\* there, and a non-zero difference at the end
C9_OneEmaWarm ==
  /\ pc = "applied"
  /\ params.macdFast < params.macdSlow
  /\ ALen(data) > params.macdSlow
  /\ macdLine[params.macdFast - 1] = Null
  /\ Defined(macdLine[LastIndex])
  /\ macdLine[LastIndex] # Num(0)

\* C10: runBacktest never opens a position at index i, and never closes one by
\* a bearish crossover at index i, when signalLine[i-1] or signalLine[i] is
\* Undefined.
C10_CrossoverOnDefinedSignal ==
  [][(pc = "loop" /\ i < ALen(data)
        /\ \/ ~inTrade /\ inTrade'
           \/ inTrade /\ ~inTrade' /\ sellSignal(i))
       => Defined(At(signalLine, i - 1)) /\ Defined(At(signalLine, i))]_vars

====
